---- MODULE Spec2Model ----
(***************************************************************************)
(* Model of zainar/esp32-modem, host_setup:                                *)
(*   bridge_usb.py  - device discovery, TAP acquisition, forwarding loop   *)
(*   setup_tap.py   - the same discovery code (identical copy), and the    *)
(*                    provisioning of esp0                                 *)
(*   setup_routing.py - the default route and the routes through esp0      *)
(* Paths "/dev/ttyACM<suffix>" are modelled by their suffix, a sequence of *)
(* character codes; the common prefix does not affect the string order.    *)
(* File contents are sequences of one-character strings.                   *)
(***************************************************************************)
EXTENDS Integers, Sequences, FiniteSets, TLC

VARIABLES
    isRoot,      \* os.geteuid() == 0
    argsDev,     \* args.dev: None or Some(path)
    glob,        \* glob.glob("/dev/ttyACM*"): the paths in the order the OS lists them
    sysfs,       \* per path: the /sys topology and the attribute files behind it
    pc,          \* position of the process in main() / detect_esp32_acm()
    candidates,  \* detect_esp32_acm: candidates
    scanIdx,     \* detect_esp32_acm: position of the for loop in candidates
    esp_ports,   \* detect_esp32_acm: esp_ports
    usb_dev,     \* main: usb_dev (None until decided)
    out,         \* what has been printed, in order
    exc,         \* the exception in flight while the finally clause runs
    exitCode,    \* None while the process runs, then its exit status
    ser,         \* the serial handle: "unopened", "open" or "closed"
    tap,         \* the /dev/net/tun descriptor: "unopened", "open" or "closed"
    serCloses,   \* number of ser.close() calls made
    tapCloses,   \* number of os.close(tap_fd) calls made
    data,        \* main: data, the buffer of the current step
    serIn,       \* bytes the peripheral has sent that were not read yet
    tapIn,       \* frames the host stack has queued on esp0, not read yet
    serRead,     \* every byte ser.read returned so far
    tapWrites,   \* the buffers os.write(tap_fd, ..) accepted so far
    tapRead,     \* every byte os.read(tap_fd, ..) returned so far
    serWrites,   \* the buffers ser.write accepted so far
    sent,        \* number of bytes the peripheral sent / frames the host queued
    lastPoll,    \* the endpoint polled last: "none", "serial" or "tap"
    served,      \* per direction: services since the other endpoint was polled
    failed,      \* the forwarding call that raised, if any, and the logs at that time
    interrupts,  \* number of SIGINTs delivered
    walkSys,     \* find_usb_parent_sysfs called on its own: the /sys entry of tty_name
    walkPc,      \* its position, then that of the loop body of detect_esp32_acm
    walkLevel,   \* path, as the number of dirname() hops above the resolved node
    walkSeen,    \* the levels whose attribute files the walk has tested
    walkRet,     \* what find_usb_parent_sysfs returned: None or Some(level)
    vidMatch,    \* whether the loop body appended the candidate to esp_ports
    ifExists,    \* the host has an interface esp0
    ifAddr,      \* esp0 has the address 192.168.7.1/24
    ifUp,        \* esp0 is administratively up
    tunLoaded,   \* the tun module is loaded
    defRoutes,   \* the default routes of the host: "orig" (the one it came with), "esp0"
    routes,      \* the networks routed via 192.168.7.1 dev esp0
    backupFile,  \* /tmp/esp32_routes_backup.json: None or Some(content)
    sPc,         \* position of the setup script that is running (setup_tap, setup_routing)
    sOut,        \* what that run has printed, in order
    sExit,       \* None while it runs, then its exit status
    sRoot,       \* os.geteuid() == 0 for that run
    sArgs,       \* its command line
    sDev,        \* setup_tap main: usb_dev
    sRet,        \* what setup_default_route / setup_specific_route returned
    backupOk,    \* what backup_routes returned to setup_default_route
    sBefore,     \* the routing table and the backup file when that run started
    runs         \* number of script runs started

envVars    == <<isRoot, argsDev, glob, sysfs>>
scanVars   == <<candidates, scanIdx, esp_ports>>
handleVars == <<ser, tap, serCloses, tapCloses>>
wireVars   == <<serIn, tapIn, sent>>
logVars    == <<serRead, tapWrites, tapRead, serWrites>>
pollVars   == <<lastPoll, served>>
loopVars   == <<data, wireVars, logVars, pollVars, failed>>
procVars   == <<exc, exitCode, handleVars, loopVars, interrupts>>
bridgeVars == <<envVars, scanVars, pc, usb_dev, out, procVars>>
probeVars  == <<walkSys, walkPc, walkLevel, walkSeen, walkRet, vidMatch>>
ifVars     == <<ifExists, ifAddr, ifUp, tunLoaded>>
routeVars  == <<defRoutes, routes, backupFile>>
hostVars   == <<ifVars, routeVars>>
runVars    == <<sRoot, sArgs, sBefore, runs>>
scriptVars == <<sPc, sOut, sExit, sDev, sRet, backupOk, runVars>>
setupVars  == <<hostVars, scriptVars>>
restVars   == <<probeVars, setupVars>>
vars       == <<bridgeVars, restVars>>

-----------------------------------------------------------------------------
(* Bounds of the model *)

\* largest number of /dev/ttyACM* devices present when discovery is examined
MaxCandidates == 3

\* number of bytes the peripheral sends during a run
MaxSerialBytes == 2

\* number of frames the host stack queues on esp0 during a run
MaxFrames == 2

\* the sizes of what one os.read(tap_fd, ..) finds, in bytes; 0 is the read
\* that returns no bytes
FrameLens == {0, 1, 2}

\* number of SIGINTs delivered to the process during a run
MaxInterrupts == 2

-----------------------------------------------------------------------------
(* Python values *)

None == [some |-> FALSE]
Some(v) == [some |-> TRUE, val |-> v]

TruthyMut(o) == TRUE

\* truthiness of an Optional[str]: None and "" are both false
Truthy(o) == o.some /\ o.val # <<>>

Range(s) == {s[i] : i \in DOMAIN s}

Perms(S) == {s \in [1..Cardinality(S) -> S] : Range(s) = S}

-----------------------------------------------------------------------------
(* Strings *)

\* str < str in Python: lexicographic by code point, a proper prefix is smaller
RECURSIVE LexLess(_, _)
LexLess(a, b) ==
    IF b = <<>> THEN FALSE
    ELSE IF a = <<>> THEN TRUE
    ELSE IF Head(a) # Head(b) THEN Head(a) < Head(b)
    ELSE LexLess(Tail(a), Tail(b))

Whitespace == {" ", "\n", "\t"}

RECURSIVE LStrip(_)
LStrip(s) == IF s # <<>> /\ Head(s) \in Whitespace THEN LStrip(Tail(s)) ELSE s

RECURSIVE RStrip(_)
RStrip(s) ==
    IF s # <<>> /\ s[Len(s)] \in Whitespace THEN RStrip(SubSeq(s, 1, Len(s) - 1)) ELSE s

\* str.strip()
Strip(s) == RStrip(LStrip(s))

LowerChar(c) ==
    CASE c = "A" -> "a" [] c = "B" -> "b" [] c = "C" -> "c"
      [] c = "D" -> "d" [] c = "E" -> "e" [] c = "F" -> "f"
      [] OTHER -> c

LowerMut(s) == s

\* str.lower()
Lower(s) == [i \in DOMAIN s |-> LowerChar(s[i])]

ESPRESSIF_USB_VID == <<"3", "0", "3", "a">>

-----------------------------------------------------------------------------
(* sorted() *)

RECURSIVE InsertSortedMut(_, _)
InsertSortedMut(p, s) ==
    IF s = <<>> THEN <<p>>
    ELSE IF Len(p) < Len(s[1]) \/ (Len(p) = Len(s[1]) /\ LexLess(p, s[1])) THEN <<p>> \o s
    ELSE <<s[1]>> \o InsertSortedMut(p, Tail(s))

RECURSIVE InsertSorted(_, _)
InsertSorted(p, s) ==
    IF s = <<>> THEN <<p>>
    ELSE IF LexLess(p, s[1]) THEN <<p>> \o s
    ELSE <<s[1]>> \o InsertSorted(p, Tail(s))

sortedMut(s) == s

RECURSIVE sorted(_)
sorted(s) == IF s = <<>> THEN <<>> ELSE InsertSorted(Head(s), sorted(Tail(s)))

-----------------------------------------------------------------------------
(* find_usb_parent_sysfs *)

\* range(5) in the walk
WalkDepth == 5

\* os.path.exists of both attribute files in the directory `level` hops above
\* the node that /sys/class/tty/<name>/device resolves to
HasIds(s, level) == level \in s.idVendorAt /\ level \in s.idProductAt

RECURSIVE Walk(_, _, _)
Walk(s, level, left) ==
    IF left = 0 THEN None
    ELSE IF HasIds(s, level) THEN Some(level)
    ELSE IF level = s.rootLevel THEN None       \* dirname(path) == path: break
    ELSE Walk(s, level + 1, left - 1)

find_usb_parent_sysfs(s) ==
    IF ~s.base THEN None ELSE Walk(s, 0, WalkDepth)

-----------------------------------------------------------------------------
(* The devices discovery is examined on *)

Paths == {<<48>>, <<49>>, <<49, 48>>, <<50>>}     \* ttyACM0, ttyACM1, ttyACM10, ttyACM2

Sys(base, ids, pids, root, readable, vid) ==
    [base |-> base, idVendorAt |-> ids, idProductAt |-> pids, rootLevel |-> root,
     readable |-> readable, idVendor |-> vid]

SysfsProfiles ==
    { Sys(TRUE,  {1}, {1}, 6, TRUE,  <<"3", "0", "3", "a", "\n">>),   \* an ESP32
      Sys(TRUE,  {1}, {1}, 6, TRUE,  <<"3", "0", "3", "A", "\n">>),   \* upper case
      Sys(TRUE,  {1}, {1}, 6, TRUE,  <<"1", "2", "3", "4", "\n">>),   \* other vendor
      Sys(FALSE, {},  {},  6, TRUE,  <<"3", "0", "3", "a", "\n">>),   \* no /sys/class/tty node
      Sys(TRUE,  {5}, {5}, 8, TRUE,  <<"3", "0", "3", "a", "\n">>),   \* ids beyond the walk
      Sys(TRUE,  {1}, {1}, 6, FALSE, <<"3", "0", "3", "a", "\n">>),   \* open() raises OSError
      Sys(TRUE,  {0, 1}, {1}, 2, TRUE, <<"3", "0", "3", "a", "b", "\n">>) }  \* longer id

-----------------------------------------------------------------------------
(* detect_esp32_acm, one action per step *)

Msg(text, dev) == [msg |-> text, dev |-> dev]

\* f.read().strip().lower() of the idVendor file
ReadVid(s) == Lower(Strip(s.idVendor))

VendorMatchedMut(s) == ReadVid(s) = ESPRESSIF_USB_VID

\* lines 76-92: does the for-loop body append dev to esp_ports?
VendorMatched(s) ==
    /\ find_usb_parent_sysfs(s).some
    /\ s.readable
    /\ ReadVid(s) = ESPRESSIF_USB_VID

\* lines 76-90: what the for-loop body prints for dev
ScanReport(dev, s) ==
    IF ~find_usb_parent_sysfs(s).some THEN Msg("no USB parent sysfs with idVendor/idProduct", Some(dev))
    ELSE IF ~s.readable THEN Msg("failed to read idVendor/idProduct", Some(dev))
    ELSE Msg("VID PID", Some(dev))

SelectPortMut(ports, cands) == cands[1]

\* lines 94-106: the path detect_esp32_acm returns after the scan
SelectPort(ports, cands) ==
    IF Len(ports) = 1 THEN ports[1]
    ELSE IF Len(ports) > 1 THEN ports[1]
    ELSE cands[1]

\* lines 94-105: what is printed with the selection
SelectReport(ports) ==
    IF Len(ports) = 1 THEN "Auto-detect: selected"
    ELSE IF Len(ports) > 1 THEN "Auto-detect: multiple ESP32-like devices found; using the first one"
    ELSE "Auto-detect: no ESP32 found; falling back to first /dev/ttyACM* device"

\* lines 62-106 as the function of the enumeration it computes
detect_esp32_acm(g, s) ==
    LET cands == sorted(g)
        ports == SelectSeq(cands, LAMBDA d : VendorMatched(s[d]))
    IN  IF cands = <<>> THEN None ELSE Some(SelectPort(ports, cands))

\* lines 67-73
DetectGlob ==
    /\ pc = "detect_glob"
    /\ candidates' = sorted(glob)
    /\ IF candidates' = <<>>
       THEN /\ out' = Append(out, Msg("Auto-detect: no /dev/ttyACM* devices found", None))
            /\ usb_dev' = None
            /\ pc' = "main_detected"
            /\ UNCHANGED <<scanIdx, esp_ports>>
       ELSE /\ out' = Append(out, Msg("Auto-detect: scanning", None))
            /\ esp_ports' = <<>>
            /\ scanIdx' = 1
            /\ pc' = "detect_loop"
            /\ UNCHANGED usb_dev
    /\ UNCHANGED <<restVars, envVars, procVars>>

\* lines 75-92, one iteration of the for loop
DetectCandidate ==
    /\ pc = "detect_loop"
    /\ scanIdx <= Len(candidates)
    /\ LET dev == candidates[scanIdx]
       IN  /\ out' = Append(out, ScanReport(dev, sysfs[dev]))
           /\ esp_ports' = IF VendorMatched(sysfs[dev]) THEN Append(esp_ports, dev) ELSE esp_ports
    /\ scanIdx' = scanIdx + 1
    /\ UNCHANGED <<restVars, envVars, candidates, pc, usb_dev, procVars>>

\* lines 94-106, after the for loop
DetectSelect ==
    /\ pc = "detect_loop"
    /\ scanIdx > Len(candidates)
    /\ usb_dev' = Some(SelectPort(esp_ports, candidates))
    /\ out' = Append(out, Msg(SelectReport(esp_ports), usb_dev'))
    /\ pc' = "main_detected"
    /\ UNCHANGED <<restVars, envVars, scanVars, procVars>>

-----------------------------------------------------------------------------
(* Initial values *)

\* the process before any statement of main has run
ProcInit ==
    /\ candidates = <<>>
    /\ scanIdx = 0
    /\ esp_ports = <<>>
    /\ usb_dev = None
    /\ out = <<>>
    /\ exc = "none"
    /\ exitCode = None
    /\ ser = "unopened"
    /\ tap = "unopened"
    /\ serCloses = 0
    /\ tapCloses = 0
    /\ data = <<>>
    /\ serIn = <<>>
    /\ tapIn = <<>>
    /\ serRead = <<>>
    /\ tapWrites = <<>>
    /\ tapRead = <<>>
    /\ serWrites = <<>>
    /\ sent = [serial |-> 0, tap |-> 0]
    /\ lastPoll = "none"
    /\ served = [serial |-> 0, tap |-> 0]
    /\ failed = None
    /\ interrupts = 0

\* find_usb_parent_sysfs is not being examined on its own
ProbeIdle ==
    /\ walkSys = None
    /\ walkPc = "idle"
    /\ walkLevel = 0
    /\ walkSeen = {}
    /\ walkRet = None
    /\ vidMatch = FALSE

\* no setup script is being examined
SetupIdle ==
    /\ ifExists = FALSE /\ ifAddr = FALSE /\ ifUp = FALSE /\ tunLoaded = FALSE
    /\ defRoutes = {} /\ routes = {} /\ backupFile = None
    /\ sPc = "idle"
    /\ sOut = <<>>
    /\ sExit = None
    /\ sRoot = FALSE
    /\ sArgs = None
    /\ sDev = None
    /\ sRet = None
    /\ backupOk = None
    /\ sBefore = None
    /\ runs = 0

RestIdle == ProbeIdle /\ SetupIdle

-----------------------------------------------------------------------------
(* main of bridge_usb.py, one action per statement that can be interrupted *)

\* os.read(tap_fd, 1500)
MTU == 1500

\* sys.exit(1), and an exception that leaves main
EXIT_FAILURE == 1

Exit(code) == pc' = "exited" /\ exitCode' = Some(code)

Say(msgs) == out' = out \o msgs

Text(t) == Msg(t, None)

Flatten(bufs) ==
    LET RECURSIVE F(_)
        F(b) == IF b = <<>> THEN <<>> ELSE Head(b) \o F(Tail(b))
    IN  F(bufs)

\* the program counters of the try body, lines 162-174
LoopPcs == {"loop_in_waiting", "loop_ser_read", "loop_tap_write",
            "loop_select", "loop_tap_read", "loop_ser_write"}

MainCheckRootMut ==
    /\ pc = "main_start"
    /\ pc' = "main_args"
    /\ UNCHANGED <<restVars, envVars, scanVars, usb_dev, out, procVars>>

\* lines 118-121
MainCheckRoot ==
    /\ pc = "main_start"
    /\ IF ~isRoot
       THEN /\ Say(<<Text("Error: This script must be run as root"),
                     Text("Use: sudo python3 bridge_usb.py --dev /dev/ttyACM1")>>)
            /\ Exit(EXIT_FAILURE)
       ELSE /\ pc' = "main_args"
            /\ UNCHANGED <<out, exitCode>>
    /\ UNCHANGED <<restVars, envVars, scanVars, usb_dev, exc, handleVars, loopVars, interrupts>>

\* lines 135-138
Banner(dev) == <<Text("ESP32 WiFi Adapter - USB Bridge"), Msg("Using USB device", dev),
                 Text("Using TAP interface: esp0")>>

\* lines 123-130 and, with --dev, 135-138
MainSelectDev ==
    /\ pc = "main_args"
    /\ IF Truthy(argsDev)
       THEN /\ usb_dev' = argsDev
            /\ Say(<<Msg("Using USB device from argument", argsDev)>> \o Banner(argsDev))
            /\ pc' = "main_open_serial"
       ELSE /\ pc' = "detect_glob"
            /\ UNCHANGED <<usb_dev, out>>
    /\ UNCHANGED <<restVars, envVars, scanVars, procVars>>

\* lines 131-138, after detect_esp32_acm returned
MainDetected ==
    /\ pc = "main_detected"
    /\ IF ~Truthy(usb_dev)
       THEN /\ Say(<<Text("Failed to auto-detect any suitable /dev/ttyACM* device.")>>)
            /\ Exit(EXIT_FAILURE)
       ELSE /\ Say(Banner(usb_dev))
            /\ pc' = "main_open_serial"
            /\ UNCHANGED exitCode
    /\ UNCHANGED <<restVars, envVars, scanVars, usb_dev, exc, handleVars, loopVars, interrupts>>

\* lines 141-143: serial.Serial(usb_dev, BAUDRATE, timeout=0.1) returns
MainOpenSerial ==
    /\ pc = "main_open_serial"
    /\ ser' = "open"
    /\ Say(<<Msg("Connected to", usb_dev)>>)
    /\ pc' = "create_tap_open"
    /\ UNCHANGED <<restVars, envVars, scanVars, usb_dev, exc, exitCode, tap, serCloses, tapCloses,
                   loopVars, interrupts>>

\* lines 144-146: serial.Serial raises
MainOpenSerialFails ==
    /\ pc = "main_open_serial"
    /\ Say(<<Msg("Error opening", usb_dev)>>)
    /\ Exit(EXIT_FAILURE)
    /\ UNCHANGED <<restVars, envVars, scanVars, usb_dev, exc, handleVars, loopVars, interrupts>>

\* line 111: os.open("/dev/net/tun", os.O_RDWR) returns
CreateTapOpen ==
    /\ pc = "create_tap_open"
    /\ tap' = "open"
    /\ pc' = "create_tap_ioctl"
    /\ UNCHANGED <<restVars, envVars, scanVars, usb_dev, out, exc, exitCode, ser, serCloses, tapCloses,
                   loopVars, interrupts>>

\* line 111: os.open raises; control goes to the handler at line 153
CreateTapOpenFails ==
    /\ pc = "create_tap_open"
    /\ pc' = "main_tap_except"
    /\ UNCHANGED <<restVars, envVars, scanVars, usb_dev, out, procVars>>

\* lines 112-114: fcntl.ioctl(tap_fd, TUNSETIFF, ifr) returns
CreateTapIoctl ==
    /\ pc = "create_tap_ioctl"
    /\ pc' = "main_tap_created"
    /\ UNCHANGED <<restVars, envVars, scanVars, usb_dev, out, procVars>>

\* line 113: the ioctl raises; tap_fd is a local of create_tap and stays open
CreateTapIoctlFails ==
    /\ pc = "create_tap_ioctl"
    /\ pc' = "main_tap_except"
    /\ UNCHANGED <<restVars, envVars, scanVars, usb_dev, out, procVars>>

\* lines 153-157
MainTapExcept ==
    /\ pc = "main_tap_except"
    /\ Say(<<Text("Error creating TAP interface"),
             Text("Make sure /dev/net/tun exists (sudo modprobe tun)")>>)
    /\ ser' = "closed"
    /\ serCloses' = serCloses + 1
    /\ Exit(EXIT_FAILURE)
    /\ UNCHANGED <<restVars, envVars, scanVars, usb_dev, exc, tap, tapCloses, loopVars, interrupts>>

\* lines 151-159, then the try statement is entered
MainTapCreated ==
    /\ pc = "main_tap_created"
    /\ Say(<<Text("TAP interface esp0 created"), Text("Bridge running... (Ctrl+C to stop)")>>)
    /\ pc' = "loop_in_waiting"
    /\ UNCHANGED <<restVars, envVars, scanVars, usb_dev, procVars>>

-----------------------------------------------------------------------------
(* The forwarding loop, lines 161-174 *)

Logs == <<serRead, tapWrites, tapRead, serWrites>>

\* where control goes when a call of the try body raises anything but
\* KeyboardInterrupt: no except clause matches, the finally clause runs
OnRaise == "finally_ser_close"

\* where control goes after the serial direction was handled (line 170) and
\* after the TAP direction was handled (back to line 164)
AfterSerialMut == "loop_in_waiting"

AfterSerial == "loop_select"

AfterTapMut == "finally_ser_close"

AfterTap == "loop_in_waiting"

\* what os.write(tap_fd, data) and ser.write(data) hand to the endpoint
WrittenMut(buf) == IF Len(buf) > 1 THEN Tail(buf) ELSE buf

Written(buf) == buf

\* line 164: ser.in_waiting > 0
LoopInWaiting ==
    /\ pc = "loop_in_waiting"
    /\ lastPoll' = "serial"
    /\ served' = [served EXCEPT !.tap = 0]
    /\ pc' = IF Len(serIn) > 0 THEN "loop_ser_read" ELSE "loop_select"
    /\ UNCHANGED <<restVars, envVars, scanVars, usb_dev, out, exc, exitCode, handleVars, data, wireVars,
                   logVars, failed, interrupts>>

\* the byte counts ser.read(avail) returns: pending input of a few bytes is
\* examined with every short count, a burst is returned whole
ReadCounts(avail) == IF avail <= MaxSerialBytes THEN 0..avail ELSE {avail}

\* line 165: data = ser.read(ser.in_waiting); read returns up to that many bytes
LoopSerRead ==
    /\ pc = "loop_ser_read"
    /\ \E n \in ReadCounts(Len(serIn)) :
          /\ data' = SubSeq(serIn, 1, n)
          /\ serIn' = SubSeq(serIn, n + 1, Len(serIn))
    /\ serRead' = serRead \o data'
    /\ served' = [served EXCEPT !.serial = @ + 1]
    /\ pc' = "loop_tap_write"
    /\ UNCHANGED <<restVars, envVars, scanVars, usb_dev, out, exc, exitCode, handleVars, tapIn, sent,
                   tapWrites, tapRead, serWrites, lastPoll, failed, interrupts>>

HasDataMut(buf) == TRUE

\* lines 166 and 173: `if data:`, the truth value of a bytes object
HasData(buf) == buf # <<>>

\* lines 166-167: if data: os.write(tap_fd, data)
LoopTapWrite ==
    /\ pc = "loop_tap_write"
    /\ tapWrites' = IF HasData(data) THEN Append(tapWrites, Written(data)) ELSE tapWrites
    /\ pc' = AfterSerial
    /\ UNCHANGED <<restVars, envVars, scanVars, usb_dev, out, exc, exitCode, handleVars, data, wireVars,
                   serRead, tapRead, serWrites, pollVars, failed, interrupts>>

\* line 170: select.select([tap_fd], [], [], 0.1) returns: ready, or timed out
LoopSelect ==
    /\ pc = "loop_select"
    /\ lastPoll' = "tap"
    /\ served' = [served EXCEPT !.serial = 0]
    /\ pc' = IF tapIn # <<>> THEN "loop_tap_read" ELSE AfterTap
    /\ UNCHANGED <<restVars, envVars, scanVars, usb_dev, out, exc, exitCode, handleVars, data, wireVars,
                   logVars, failed, interrupts>>

\* line 172: data = os.read(tap_fd, 1500): one frame, cut to 1500 bytes
LoopTapRead ==
    /\ pc = "loop_tap_read"
    /\ tapIn # <<>>
    /\ data' = SubSeq(Head(tapIn), 1, IF Len(Head(tapIn)) < MTU THEN Len(Head(tapIn)) ELSE MTU)
    /\ tapIn' = Tail(tapIn)
    /\ tapRead' = tapRead \o data'
    /\ served' = [served EXCEPT !.tap = @ + 1]
    /\ pc' = "loop_ser_write"
    /\ UNCHANGED <<restVars, envVars, scanVars, usb_dev, out, exc, exitCode, handleVars, serIn, sent,
                   serRead, tapWrites, serWrites, lastPoll, failed, interrupts>>

\* lines 173-174: if data: ser.write(data)
LoopSerWrite ==
    /\ pc = "loop_ser_write"
    /\ serWrites' = IF HasData(data) THEN Append(serWrites, Written(data)) ELSE serWrites
    /\ pc' = AfterTap
    /\ UNCHANGED <<restVars, envVars, scanVars, usb_dev, out, exc, exitCode, handleVars, data, wireVars,
                   serRead, tapWrites, tapRead, pollVars, failed, interrupts>>

\* the call the try body is about to make, if it is about to make one
PendingCall ==
    CASE pc = "loop_in_waiting" -> "ser.in_waiting"
      [] pc = "loop_ser_read"   -> "ser.read"
      [] pc = "loop_tap_write"  -> IF HasData(data) THEN "os.write" ELSE "none"
      [] pc = "loop_select"     -> "select.select"
      [] pc = "loop_tap_read"   -> "os.read"
      [] pc = "loop_ser_write"  -> IF HasData(data) THEN "ser.write" ELSE "none"
      [] OTHER -> "none"

\* a call of the try body raises (OSError, SerialException): lines 161-178
LoopCallRaises ==
    /\ pc \in LoopPcs
    /\ PendingCall # "none"
    /\ failed' = Some([call |-> PendingCall, logs |-> Logs])
    /\ exc' = "io"
    /\ pc' = OnRaise
    /\ UNCHANGED <<restVars, envVars, scanVars, usb_dev, out, exitCode, handleVars, data, wireVars,
                   logVars, pollVars, interrupts>>

\* lines 176-177
MainExceptKbd ==
    /\ pc = "main_except_kbd"
    /\ Say(<<Text("Stopping bridge...")>>)
    /\ pc' = "finally_ser_close"
    /\ UNCHANGED <<restVars, envVars, scanVars, usb_dev, procVars>>

\* line 179
FinallySerClose ==
    /\ pc = "finally_ser_close"
    /\ ser' = "closed"
    /\ serCloses' = serCloses + 1
    /\ pc' = "finally_tap_close"
    /\ UNCHANGED <<restVars, envVars, scanVars, usb_dev, out, exc, exitCode, tap, tapCloses, loopVars,
                   interrupts>>

\* line 180
FinallyTapClose ==
    /\ pc = "finally_tap_close"
    /\ tap' = "closed"
    /\ tapCloses' = tapCloses + 1
    /\ pc' = "finally_print"
    /\ UNCHANGED <<restVars, envVars, scanVars, usb_dev, out, exc, exitCode, ser, serCloses, loopVars,
                   interrupts>>

\* line 181, then main returns (exit status 0) or the exception in flight
\* leaves main: the interpreter prints the traceback and exits non-zero
FinallyPrint ==
    /\ pc = "finally_print"
    /\ CASE exc = "none" -> Say(<<Text("Bridge stopped")>>) /\ Exit(0)
         [] exc = "io"   -> /\ Say(<<Text("Bridge stopped"), Text("Traceback: I/O error")>>)
                            /\ Exit(EXIT_FAILURE)
         [] exc = "kbd"  -> /\ Say(<<Text("Bridge stopped"), Text("Traceback: KeyboardInterrupt")>>)
                            /\ Exit(130)
    /\ UNCHANGED <<restVars, envVars, scanVars, usb_dev, exc, handleVars, loopVars, interrupts>>

-----------------------------------------------------------------------------
(* The environment of the running process *)

Running == pc \notin {"exited"}

\* SIGINT: Python raises KeyboardInterrupt in the main thread before the next
\* statement.  In the try body the handler at line 176 takes it; in that
\* handler it propagates after the finally clause; anywhere else (before the
\* try statement, in the finally clause) nothing catches it and the process
\* ends with the status of an unhandled KeyboardInterrupt.
Interrupt ==
    /\ Running
    /\ interrupts < MaxInterrupts
    /\ interrupts' = interrupts + 1
    /\ CASE pc \in LoopPcs ->
              /\ pc' = "main_except_kbd"
              /\ UNCHANGED <<out, exc, exitCode>>
         [] pc = "main_except_kbd" ->
              /\ pc' = "finally_ser_close"
              /\ exc' = "kbd"
              /\ UNCHANGED <<out, exitCode>>
         [] OTHER ->
              /\ Say((IF exc = "io" THEN <<Text("Traceback: I/O error")>> ELSE <<>>)
                        \o <<Text("Traceback: KeyboardInterrupt")>>)
              /\ Exit(130)
              /\ UNCHANGED exc
    /\ UNCHANGED <<restVars, envVars, scanVars, usb_dev, handleVars, loopVars>>

\* the positions at which pending input can still reach the loop
Receiving == {"main_tap_created"} \cup LoopPcs

\* the peripheral sends one more byte; the k-th byte sent is k
SerialArrives ==
    /\ pc \in Receiving
    /\ ser = "open"
    /\ sent.serial < MaxSerialBytes
    /\ sent' = [sent EXCEPT !.serial = @ + 1]
    /\ serIn' = Append(serIn, sent'.serial)
    /\ UNCHANGED <<restVars, envVars, scanVars, pc, usb_dev, out, exc, exitCode, handleVars, data, tapIn,
                   logVars, pollVars, failed, interrupts>>

\* the host stack queues one more frame on esp0; byte i of the k-th frame is 10k + i
TapArrives ==
    /\ pc \in Receiving
    /\ tap = "open"
    /\ sent.tap < MaxFrames
    /\ sent' = [sent EXCEPT !.tap = @ + 1]
    /\ \E n \in FrameLens : tapIn' = Append(tapIn, [i \in 1..n |-> 10 * sent'.tap + i])
    /\ UNCHANGED <<restVars, envVars, scanVars, pc, usb_dev, out, exc, exitCode, handleVars, data, serIn,
                   logVars, pollVars, failed, interrupts>>

-----------------------------------------------------------------------------
(* The bridge process *)

\* the devices among which the bridge is started: none; one ESP32; an ESP32
\* listed by the OS before a device of another vendor that sorts first
BridgeEnvironments ==
    LET esp   == Sys(TRUE, {1}, {1}, 6, TRUE, <<"3", "0", "3", "a", "\n">>)
        other == Sys(TRUE, {1}, {1}, 6, TRUE, <<"1", "2", "3", "4", "\n">>)
    IN  { [glob |-> <<>>, sysfs |-> <<>>],
          [glob |-> <<(<<49>>)>>, sysfs |-> (<<49>> :> esp)],
          [glob |-> <<(<<49>>), (<<48>>)>>, sysfs |-> (<<49>> :> esp) @@ (<<48>> :> other)] }

Init ==
    /\ isRoot \in BOOLEAN
    /\ argsDev \in {None, Some(<<>>), Some(<<49>>)}
    /\ \E e \in BridgeEnvironments : glob = e.glob /\ sysfs = e.sysfs
    /\ pc = "main_start"
    /\ ProcInit
    /\ RestIdle

Next ==
    \/ MainCheckRoot \/ MainSelectDev
    \/ DetectGlob \/ DetectCandidate \/ DetectSelect
    \/ MainDetected
    \/ MainOpenSerial \/ MainOpenSerialFails
    \/ CreateTapOpen \/ CreateTapOpenFails \/ CreateTapIoctl \/ CreateTapIoctlFails
    \/ MainTapExcept \/ MainTapCreated
    \/ LoopInWaiting \/ LoopSerRead \/ LoopTapWrite
    \/ LoopSelect \/ LoopTapRead \/ LoopSerWrite
    \/ LoopCallRaises
    \/ MainExceptKbd \/ FinallySerClose \/ FinallyTapClose \/ FinallyPrint
    \/ Interrupt \/ SerialArrives \/ TapArrives

Spec == Init /\ [][Next]_vars

-----------------------------------------------------------------------------
(* The bridge under load: input larger than one os.read(tap_fd, 1500) *)

\* bytes the peripheral sends back to back while the loop is busy elsewhere
BurstLen == MTU + 1

\* a full-size Ethernet frame on esp0 (IFF_TAP | IFF_NO_PI): the 1500-byte
\* payload of the link MTU behind the 14-byte Ethernet header
FullFrameLen == MTU + 14

\* the peripheral sends BurstLen bytes before the loop polls the serial port
SerialBurst ==
    /\ pc \in Receiving
    /\ ser = "open"
    /\ sent.serial < MaxSerialBytes
    /\ sent' = [sent EXCEPT !.serial = @ + BurstLen]
    /\ serIn' = serIn \o [i \in 1..BurstLen |-> sent.serial + i]
    /\ UNCHANGED <<restVars, envVars, scanVars, pc, usb_dev, out, exc, exitCode, handleVars, data, tapIn,
                   logVars, pollVars, failed, interrupts>>

\* the host stack queues a full-size frame on esp0
TapFullFrame ==
    /\ pc \in Receiving
    /\ tap = "open"
    /\ sent.tap < MaxFrames
    /\ sent' = [sent EXCEPT !.tap = @ + 1]
    /\ tapIn' = Append(tapIn, [i \in 1..FullFrameLen |-> 10 * sent'.tap + i])
    /\ UNCHANGED <<restVars, envVars, scanVars, pc, usb_dev, out, exc, exitCode, handleVars, data, serIn,
                   logVars, pollVars, failed, interrupts>>

\* a privileged bridge started without --dev where one ESP32 is attached
InitBurst ==
    /\ isRoot = TRUE
    /\ argsDev = None
    /\ glob = <<(<<49>>)>>
    /\ sysfs = (<<49>> :> Sys(TRUE, {1}, {1}, 6, TRUE, <<"3", "0", "3", "a", "\n">>))
    /\ pc = "main_start"
    /\ ProcInit
    /\ RestIdle

NextBurst == Next \/ SerialBurst \/ TapFullFrame

SpecBurst == InitBurst /\ [][NextBurst]_vars

-----------------------------------------------------------------------------
(* Discovery examined on its own: detect_esp32_acm is called, as main does *)
(* at bridge_usb.py:130 and setup_tap.py:191, on every environment.        *)

InitScan ==
    /\ isRoot = TRUE
    /\ argsDev = None
    /\ \E S \in SUBSET Paths :
          /\ Cardinality(S) <= MaxCandidates
          /\ glob \in Perms(S)
          /\ sysfs \in [S -> SysfsProfiles]
    /\ pc = "detect_glob"
    /\ ProcInit
    /\ RestIdle

NextScan == DetectGlob \/ DetectCandidate \/ DetectSelect

SpecScan == InitScan /\ [][NextScan]_vars

-----------------------------------------------------------------------------
(* find_usb_parent_sysfs and the loop body of detect_esp32_acm examined on  *)
(* one candidate, one action per iteration of the walk                     *)

\* the deepest /sys hierarchy examined: the resolved node has at most
\* MaxLevel ancestors
MaxLevel == 6

\* the longest idVendor file content examined, in characters
MaxVidLen == 6

\* the characters the idVendor file contents are built from
VidAlphabet == {"3", "0", "a", "A", "\n"}

VidStrings == UNION {[1..n -> VidAlphabet] : n \in 0..MaxVidLen}

LoopContinuesMut(iter) == iter <= WalkDepth

\* line 50: for _ in range(5) starts another iteration
LoopContinues(iter) == iter < WalkDepth

\* lines 40-48: the base node is missing, or path = realpath(base/device)
WalkBase ==
    /\ walkPc = "walk_base"
    /\ IF ~walkSys.base
       THEN /\ walkRet' = None
            /\ walkPc' = "walk_returned"
            /\ UNCHANGED walkLevel
       ELSE /\ walkLevel' = 0
            /\ walkPc' = "walk_loop"
            /\ UNCHANGED walkRet
    /\ UNCHANGED <<bridgeVars, setupVars, walkSys, walkSeen, vidMatch>>

\* lines 50-57: one iteration of the for loop
WalkStep ==
    /\ walkPc = "walk_loop"
    /\ LoopContinues(Cardinality(walkSeen))
    /\ walkSeen' = walkSeen \cup {walkLevel}
    /\ IF HasIds(walkSys, walkLevel)
       THEN /\ walkRet' = Some(walkLevel)
            /\ walkPc' = "walk_returned"
            /\ UNCHANGED walkLevel
       ELSE IF walkLevel = walkSys.rootLevel               \* new_path == path: break
       THEN /\ walkRet' = None
            /\ walkPc' = "walk_returned"
            /\ UNCHANGED walkLevel
       ELSE /\ walkLevel' = walkLevel + 1
            /\ UNCHANGED <<walkRet, walkPc>>
    /\ UNCHANGED <<bridgeVars, setupVars, walkSys, vidMatch>>

\* line 59: the for loop is exhausted
WalkExhausted ==
    /\ walkPc = "walk_loop"
    /\ ~LoopContinues(Cardinality(walkSeen))
    /\ walkRet' = None
    /\ walkPc' = "walk_returned"
    /\ UNCHANGED <<bridgeVars, setupVars, walkSys, walkLevel, walkSeen, vidMatch>>

\* lines 77-92: the rest of the loop body of detect_esp32_acm for the candidate
ProbeVendor ==
    /\ walkPc = "walk_returned"
    /\ vidMatch' = /\ walkRet # None
                   /\ walkSys.readable
                   /\ ReadVid(walkSys) = ESPRESSIF_USB_VID
    /\ walkPc' = "probe_done"
    /\ UNCHANGED <<bridgeVars, setupVars, walkSys, walkLevel, walkSeen, walkRet>>

\* no bridge process is running
BridgeIdle ==
    /\ isRoot = TRUE
    /\ argsDev = None
    /\ glob = <<>>
    /\ sysfs = <<>>
    /\ pc = "idle"
    /\ ProcInit

\* the candidates examined: every placement of the two attribute files in a
\* hierarchy of at most MaxLevel ancestors, and every idVendor content
InitProbe ==
    /\ BridgeIdle
    /\ \/ \E base \in BOOLEAN, root \in 0..MaxLevel :
            \E ids \in SUBSET (0..root), pids \in SUBSET (0..root) :
               walkSys = Sys(base, ids, pids, root, TRUE, <<"3", "0", "3", "a", "\n">>)
       \/ \E readable \in BOOLEAN, vid \in VidStrings :
               walkSys = Sys(TRUE, {1}, {1}, MaxLevel, readable, vid)
    /\ walkPc = "walk_base"
    /\ walkLevel = 0
    /\ walkSeen = {}
    /\ walkRet = None
    /\ vidMatch = FALSE
    /\ SetupIdle

NextProbe == WalkBase \/ WalkStep \/ WalkExhausted \/ ProbeVendor

SpecProbe == InitProbe /\ [][NextProbe]_vars

-----------------------------------------------------------------------------
(* The setup scripts, run one after the other on one host *)

\* number of script runs examined on one host
MaxRuns == 3

SSay(msgs) == sOut' = sOut \o msgs

SExit(code) == sPc' = "exited" /\ sExit' = Some(code)

\* what a run finds when it starts
Snapshot ==
    [ifExists |-> ifExists, defRoutes |-> defRoutes, routes |-> routes, backupFile |-> backupFile]

\* the operator runs setup_tap.py, with or without --dev and sudo
RunSetupTap ==
    /\ sPc \in {"idle", "exited"}
    /\ runs < MaxRuns
    /\ runs' = runs + 1
    /\ sRoot' \in BOOLEAN
    /\ \E dev \in {None, Some(<<49>>)} : sArgs' = [prog |-> "setup_tap", dev |-> dev]
    /\ sBefore' = Snapshot
    /\ sPc' = "tap_main"
    /\ sOut' = <<>> /\ sExit' = None /\ sDev' = None /\ sRet' = None /\ backupOk' = None
    /\ UNCHANGED <<bridgeVars, probeVars, hostVars>>

\* setup_tap.py lines 179-180
TapBanner ==
    /\ sPc = "tap_main"
    /\ SSay(<<Text("ESP32 WiFi Adapter - Host Setup"), Text("========")>>)
    /\ sPc' = "tap_check_root"
    /\ UNCHANGED <<bridgeVars, probeVars, hostVars, sExit, sDev, sRet, backupOk, runVars>>

\* setup_tap.py lines 183, 20-25
TapCheckRoot ==
    /\ sPc = "tap_check_root"
    /\ IF ~sRoot
       THEN /\ SSay(<<Text("Error: This script must be run as root"),
                      Text("Use: sudo python3 setup_tap.py")>>)
            /\ SExit(EXIT_FAILURE)
       ELSE /\ sPc' = "tap_args"
            /\ UNCHANGED <<sOut, sExit>>
    /\ UNCHANGED <<bridgeVars, probeVars, hostVars, sDev, sRet, backupOk, runVars>>

\* lines 66-106 of detect_esp32_acm (setup_tap.py 56-96): what it prints
DetectReport(g, s) ==
    LET cands == sorted(g)
        ports == SelectSeq(cands, LAMBDA d : VendorMatched(s[d]))
    IN  IF cands = <<>> THEN <<Msg("Auto-detect: no /dev/ttyACM* devices found", None)>>
        ELSE <<Msg("Auto-detect: scanning", None)>>
                \o [i \in 1..Len(cands) |-> ScanReport(cands[i], s[cands[i]])]
                \o <<Msg(SelectReport(ports), Some(SelectPort(ports, cands)))>>

\* setup_tap.py lines 186-195
TapSelectDev ==
    /\ sPc = "tap_args"
    /\ IF Truthy(sArgs.dev)
       THEN /\ sDev' = sArgs.dev
            /\ sPc' = "tap_check_tun"
            /\ UNCHANGED <<sOut, sExit>>
       ELSE /\ sDev' = detect_esp32_acm(glob, sysfs)
            /\ IF ~Truthy(sDev')
               THEN /\ SSay(DetectReport(glob, sysfs)
                              \o <<Text("Error: Could not auto-detect ESP32 USB device"),
                                   Text("Please specify --dev manually: --dev /dev/ttyACM1")>>)
                    /\ SExit(EXIT_FAILURE)
               ELSE /\ SSay(DetectReport(glob, sysfs))
                    /\ sPc' = "tap_check_tun"
                    /\ UNCHANGED sExit
    /\ UNCHANGED <<bridgeVars, probeVars, hostVars, sRet, backupOk, runVars>>

\* setup_tap.py lines 198, 118-125: lsmod | grep -q '^tun'
TapCheckTun ==
    /\ sPc = "tap_check_tun"
    /\ IF tunLoaded
       THEN SSay(<<Text("TUN/TAP module already loaded")>>) /\ sPc' = "tap_if_exists"
       ELSE SSay(<<Text("Loading TUN/TAP module...")>>) /\ sPc' = "tap_modprobe"
    /\ UNCHANGED <<bridgeVars, probeVars, hostVars, sExit, sDev, sRet, backupOk, runVars>>

\* setup_tap.py line 123: modprobe tun succeeds
TapModprobe ==
    /\ sPc = "tap_modprobe"
    /\ tunLoaded' = TRUE
    /\ sPc' = "tap_if_exists"
    /\ UNCHANGED <<bridgeVars, probeVars, ifExists, ifAddr, ifUp, routeVars, sOut, sExit, sDev,
                   sRet, backupOk, runVars>>

\* setup_tap.py lines 139-144, 128-135: ip link show esp0
TapInterfaceExists ==
    /\ sPc = "tap_if_exists"
    /\ IF ifExists
       THEN SSay(<<Text("TAP interface esp0 already exists")>>) /\ sPc' = "tap_check_usb"
       ELSE SSay(<<Text("Creating TAP interface: esp0")>>) /\ sPc' = "tap_tuntap_add"
    /\ UNCHANGED <<bridgeVars, probeVars, hostVars, sExit, sDev, sRet, backupOk, runVars>>

\* setup_tap.py line 145: ip tuntap add mode tap esp0 succeeds
TapTuntapAdd ==
    /\ sPc = "tap_tuntap_add"
    /\ ~ifExists
    /\ ifExists' = TRUE /\ ifAddr' = FALSE /\ ifUp' = FALSE
    /\ sPc' = "tap_addr_add"
    /\ UNCHANGED <<bridgeVars, probeVars, tunLoaded, routeVars, sOut, sExit, sDev, sRet,
                   backupOk, runVars>>

\* setup_tap.py line 146: ip addr add 192.168.7.1/24 dev esp0 succeeds
TapAddrAdd ==
    /\ sPc = "tap_addr_add"
    /\ ifExists /\ ~ifAddr
    /\ ifAddr' = TRUE
    /\ sPc' = "tap_link_up"
    /\ UNCHANGED <<bridgeVars, probeVars, ifExists, ifUp, tunLoaded, routeVars, sOut, sExit,
                   sDev, sRet, backupOk, runVars>>

\* setup_tap.py lines 147-148: ip link set esp0 up succeeds
TapLinkUp ==
    /\ sPc = "tap_link_up"
    /\ ifExists
    /\ ifUp' = TRUE
    /\ SSay(<<Text("TAP interface created and configured")>>)
    /\ sPc' = "tap_check_usb"
    /\ UNCHANGED <<bridgeVars, probeVars, ifExists, ifAddr, tunLoaded, routeVars, sExit, sDev,
                   sRet, backupOk, runVars>>

\* the positions of setup_tap.py at a run_command(cmd) with check=True
TapCommands == {"tap_modprobe", "tap_tuntap_add", "tap_addr_add", "tap_link_up"}

\* setup_tap.py lines 109-114: the command exits non-zero, run_command
\* reports it and calls sys.exit(1)
TapCommandFails ==
    /\ sPc \in TapCommands
    /\ SSay(<<Text("Error running command"), Text("Error: CalledProcessError")>>)
    /\ SExit(EXIT_FAILURE)
    /\ UNCHANGED <<bridgeVars, probeVars, hostVars, sDev, sRet, backupOk, runVars>>

\* setup_tap.py lines 204, 151-161
TapCheckUsb ==
    /\ sPc = "tap_check_usb"
    /\ IF sDev.val \in Range(glob)
       THEN SSay(<<Msg("USB device found", sDev)>>)
       ELSE SSay(<<Msg("Warning: USB device not found", sDev),
                   Text("Make sure ESP32 is connected and firmware is running")>>)
    /\ sPc' = "tap_complete"
    /\ UNCHANGED <<bridgeVars, probeVars, hostVars, sExit, sDev, sRet, backupOk, runVars>>

\* setup_tap.py lines 206-213, then main returns
TapComplete ==
    /\ sPc = "tap_complete"
    /\ SSay(<<Text("Setup complete!"), Text("TAP interface: esp0"),
              Text("IP address: 192.168.7.1"), Msg("USB device", sDev),
              Text("To remove the interface later, run:"),
              Text("  sudo ip tuntap del mode tap esp0")>>)
    /\ SExit(0)
    /\ UNCHANGED <<bridgeVars, probeVars, hostVars, sDev, sRet, backupOk, runVars>>

NextTap ==
    \/ RunSetupTap \/ TapBanner \/ TapCheckRoot \/ TapSelectDev
    \/ TapCheckTun \/ TapModprobe \/ TapInterfaceExists
    \/ TapTuntapAdd \/ TapAddrAdd \/ TapLinkUp \/ TapCommandFails
    \/ TapCheckUsb \/ TapComplete

-----------------------------------------------------------------------------
(* setup_routing.py *)

Networks == {"192.168.1.0/24"}

\* the operator runs setup_routing.py --default, --route NETWORK or
\* --remove-default, with or without --metric and sudo
RunSetupRouting ==
    /\ sPc \in {"idle", "exited"}
    /\ runs < MaxRuns
    /\ runs' = runs + 1
    /\ sRoot' \in BOOLEAN
    /\ \E op \in {"default", "route", "remove_default"}, net \in Networks,
          metric \in {None, Some(100)} :
          sArgs' = [prog |-> "setup_routing", op |-> op, network |-> net, metric |-> metric]
    /\ sBefore' = Snapshot
    /\ sPc' = "rt_main"
    /\ sOut' = <<>> /\ sExit' = None /\ sDev' = None /\ sRet' = None /\ backupOk' = None
    /\ UNCHANGED <<bridgeVars, probeVars, hostVars>>

\* setup_routing.py main: check_root(), parse_args() and the dispatch on args
RtMain ==
    /\ sPc = "rt_main"
    /\ IF ~sRoot
       THEN /\ SSay(<<Text("Error: This script must be run as root"),
                      Text("Use: sudo python3 setup_routing.py")>>)
            /\ SExit(EXIT_FAILURE)
       ELSE /\ sPc' = CASE sArgs.op = "remove_default" -> "rm_default"
                        [] sArgs.op = "default"        -> "def_if_exists"
                        [] sArgs.op = "route"          -> "spec_if_exists"
            /\ UNCHANGED <<sOut, sExit>>
    /\ UNCHANGED <<bridgeVars, probeVars, hostVars, sDev, sRet, backupOk, runVars>>

interface_existsMut == TRUE

\* setup_routing.py lines 46-53: ip link show esp0 exits with 0
interface_exists == ifExists

\* setup_routing.py lines 116-119
DefIfExists ==
    /\ sPc = "def_if_exists"
    /\ IF ~interface_exists
       THEN /\ SSay(<<Text("Error: Interface esp0 does not exist"),
                      Text("Run setup_tap.py first to create the interface")>>)
            /\ sRet' = Some(FALSE)
            /\ sPc' = "rt_tail"
       ELSE /\ sPc' = "def_backup"
            /\ UNCHANGED <<sOut, sRet>>
    /\ UNCHANGED <<bridgeVars, probeVars, hostVars, sExit, sDev, backupOk, runVars>>

\* setup_routing.py lines 122, 72-89: backup_routes(); each of the two queries
\* may fail, and so may open() or json.dump(), which leaves a partial file
DefBackup ==
    /\ sPc = "def_backup"
    /\ \E queryDefault \in BOOLEAN, queryAll \in BOOLEAN,
          write \in {"written", "open raises", "dump raises"} :
          LET backup == [valid |-> FALSE,
                         default_route |-> IF queryDefault /\ defRoutes # {}
                                           THEN Some(defRoutes) ELSE None,
                         all_routes |-> IF queryAll THEN defRoutes \cup routes ELSE {}]
          IN  CASE write = "written" ->
                     /\ backupFile' = Some([backup EXCEPT !.valid = TRUE])
                     /\ SSay(<<Text("Backed up current routes")>>)
                     /\ backupOk' = Some(TRUE)
                [] write = "open raises" ->
                     /\ UNCHANGED backupFile
                     /\ SSay(<<Text("Warning: Could not backup routes")>>)
                     /\ backupOk' = Some(FALSE)
                [] write = "dump raises" ->
                     /\ backupFile' = Some([valid |-> FALSE, default_route |-> None,
                                             all_routes |-> {}])
                     /\ SSay(<<Text("Warning: Could not backup routes")>>)
                     /\ backupOk' = Some(FALSE)
    /\ sPc' = "def_show"
    /\ UNCHANGED <<bridgeVars, probeVars, ifVars, defRoutes, routes, sExit, sDev, sRet, runVars>>

\* setup_routing.py lines 125-127: ip route show default
DefShow ==
    /\ sPc = "def_show"
    /\ \E ok \in BOOLEAN :
          IF ok /\ defRoutes # {}
          THEN SSay(<<Text("Removing existing default route...")>>) /\ sPc' = "def_del"
          ELSE UNCHANGED sOut /\ sPc' = "def_add"
    /\ UNCHANGED <<bridgeVars, probeVars, hostVars, sExit, sDev, sRet, backupOk, runVars>>

\* setup_routing.py line 128: ip route del default succeeds
DefDel ==
    /\ sPc = "def_del"
    /\ \E r \in defRoutes : defRoutes' = defRoutes \ {r}
    /\ sPc' = "def_add"
    /\ UNCHANGED <<bridgeVars, probeVars, ifVars, routes, backupFile, sOut, sExit, sDev, sRet,
                   backupOk, runVars>>

\* setup_routing.py line 128: ip route del default fails; check=False
DefDelFails ==
    /\ sPc = "def_del"
    /\ sPc' = "def_add"
    /\ UNCHANGED <<bridgeVars, probeVars, hostVars, sOut, sExit, sDev, sRet, backupOk, runVars>>

\* `if metric` at lines 131 and 145
MetricGiven == sArgs.metric.some /\ sArgs.metric.val # 0

\* the gateway 192.168.7.1 can be reached through esp0
GatewayOnLink == ifExists /\ ifAddr /\ ifUp

\* setup_routing.py lines 131-136: ip route add default via 192.168.7.1 dev esp0 succeeds
DefAdd ==
    /\ sPc = "def_add"
    /\ GatewayOnLink
    /\ "esp0" \notin defRoutes
    /\ defRoutes = {} \/ MetricGiven
    /\ defRoutes' = defRoutes \cup {"esp0"}
    /\ SSay(<<Text("Set default route via 192.168.7.1 dev esp0")>>)
    /\ sRet' = Some(TRUE)
    /\ sPc' = "rt_tail"
    /\ UNCHANGED <<bridgeVars, probeVars, ifVars, routes, backupFile, sExit, sDev, backupOk,
                   runVars>>

\* setup_routing.py lines 133, 38-42: the command fails, run_command exits
DefAddFails ==
    /\ sPc = "def_add"
    /\ SSay(<<Text("Error running command"), Text("Error: CalledProcessError")>>)
    /\ SExit(EXIT_FAILURE)
    /\ UNCHANGED <<bridgeVars, probeVars, hostVars, sDev, sRet, backupOk, runVars>>

\* setup_routing.py lines 141-143
SpecIfExists ==
    /\ sPc = "spec_if_exists"
    /\ IF ~interface_exists
       THEN /\ SSay(<<Text("Error: Interface esp0 does not exist")>>)
            /\ sRet' = Some(FALSE)
            /\ sPc' = "rt_tail"
       ELSE /\ sPc' = "spec_add"
            /\ UNCHANGED <<sOut, sRet>>
    /\ UNCHANGED <<bridgeVars, probeVars, hostVars, sExit, sDev, backupOk, runVars>>

\* setup_routing.py lines 145-151: ip route add NETWORK via 192.168.7.1 dev esp0 succeeds
SpecAdd ==
    /\ sPc = "spec_add"
    /\ GatewayOnLink
    /\ sArgs.network \notin routes
    /\ routes' = routes \cup {sArgs.network}
    /\ SSay(<<Text("Added route")>>)
    /\ sRet' = Some(TRUE)
    /\ sPc' = "rt_tail"
    /\ UNCHANGED <<bridgeVars, probeVars, ifVars, defRoutes, backupFile, sExit, sDev, backupOk,
                   runVars>>

\* setup_routing.py lines 148, 152-154: the command fails; check=False
SpecAddFails ==
    /\ sPc = "spec_add"
    /\ SSay(<<Text("Failed to add route (may already exist)")>>)
    /\ sRet' = Some(FALSE)
    /\ sPc' = "rt_tail"
    /\ UNCHANGED <<bridgeVars, probeVars, hostVars, sExit, sDev, backupOk, runVars>>

\* setup_routing.py lines 157-166: ip route del default via 192.168.7.1 dev esp0
RmDefault ==
    /\ sPc = "rm_default"
    /\ IF "esp0" \in defRoutes
       THEN /\ defRoutes' = defRoutes \ {"esp0"}
            /\ SSay(<<Text("Removed default route via 192.168.7.1")>>)
            /\ sRet' = Some(TRUE)
       ELSE /\ UNCHANGED defRoutes
            /\ SSay(<<Text("No default route found to remove")>>)
            /\ sRet' = Some(FALSE)
    /\ SExit(0)
    /\ UNCHANGED <<bridgeVars, probeVars, ifVars, routes, backupFile, sDev, backupOk, runVars>>

\* setup_routing.py main: show_routes(), with --default test_connectivity(),
\* then main returns
RtTail ==
    /\ sPc = "rt_tail"
    /\ SSay(<<Text("Current routing table:")>>
              \o (IF sArgs.op = "default" THEN <<Text("Testing connectivity...")>> ELSE <<>>))
    /\ SExit(0)
    /\ UNCHANGED <<bridgeVars, probeVars, hostVars, sDev, sRet, backupOk, runVars>>

\* between two runs the operator removes the interface, as the report of
\* setup_tap.py (lines 212-213) tells how: ip tuntap del mode tap esp0; the
\* kernel drops the routes through it
RemoveTap ==
    /\ sPc = "exited"
    /\ runs < MaxRuns
    /\ ifExists
    /\ ifExists' = FALSE /\ ifAddr' = FALSE /\ ifUp' = FALSE
    /\ defRoutes' = defRoutes \ {"esp0"}
    /\ routes' = {}
    /\ UNCHANGED <<bridgeVars, probeVars, tunLoaded, backupFile, scriptVars>>

NextRouting ==
    \/ RunSetupRouting \/ RtMain
    \/ DefIfExists \/ DefBackup \/ DefShow \/ DefDel \/ DefDelFails \/ DefAdd \/ DefAddFails
    \/ SpecIfExists \/ SpecAdd \/ SpecAddFails
    \/ RmDefault \/ RtTail

\* a host without esp0, with or without a default route, a backup file and
\* the tun module, on which no script has run yet
InitHost ==
    /\ isRoot = TRUE
    /\ argsDev = None
    /\ \E e \in BridgeEnvironments : glob = e.glob /\ sysfs = e.sysfs
    /\ pc = "idle"
    /\ ProcInit
    /\ ProbeIdle
    /\ ifExists = FALSE /\ ifAddr = FALSE /\ ifUp = FALSE
    /\ tunLoaded \in BOOLEAN
    /\ defRoutes \in {{}, {"orig"}}
    /\ routes = {}
    /\ backupFile = None
    /\ sPc = "idle"
    /\ sOut = <<>>
    /\ sExit = None
    /\ sRoot = FALSE
    /\ sArgs = None
    /\ sDev = None
    /\ sRet = None
    /\ backupOk = None
    /\ sBefore = None
    /\ runs = 0

NextHost == NextTap \/ NextRouting \/ RemoveTap

SpecHost == InitHost /\ [][NextHost]_vars

-----------------------------------------------------------------------------
(* Discovery: the claims *)

\* detect_esp32_acm has returned to its caller
Detected == pc = "main_detected"

Enumerated == Range(glob)

Matching == {p \in Enumerated : VendorMatched(sysfs[p])}

\* the first path of a non-empty set in sorted-by-path order
LexFirst(S) == CHOOSE p \in S : \A q \in S \ {p} : LexLess(p, q)

\* C7: when discovery has returned, at least one candidate was enumerated and
\* none of them is vendor-matched, the result is the lexicographically first
\* of all enumerated paths (readable metadata or not), and it is not None.
C7_Fallback ==
    (Detected /\ Enumerated # {} /\ Matching = {})
        => (usb_dev # None /\ usb_dev = Some(LexFirst(Enumerated)))

\* C7 witness: a fallback over several candidates, listed by the OS in an
\* order that does not start with the smallest path, whose smallest path has
\* no readable metadata.
C7_Witness ==
    /\ Detected /\ Cardinality(Enumerated) >= 2 /\ Matching = {}
    /\ glob[1] # LexFirst(Enumerated)
    /\ ~sysfs[LexFirst(Enumerated)].readable
    /\ usb_dev = Some(LexFirst(Enumerated))

\* C8: when discovery has returned and at least one candidate is
\* vendor-matched, the result is the first vendor-matched path in sorted
\* order; a non-matching candidate is never returned.
C8_VendorMatched ==
    (Detected /\ Matching # {})
        => (usb_dev = Some(LexFirst(Matching)) /\ usb_dev.val \in Matching)

\* C8 witness: two matching candidates, and a non-matching one that sorts
\* before both; the first matching one is returned.
C8_Witness ==
    /\ Detected /\ Cardinality(Matching) >= 2
    /\ LexFirst(Enumerated) \notin Matching
    /\ usb_dev = Some(LexFirst(Matching))

\* C9: the result discovery returned for the order in which the OS listed the
\* candidates is the result it computes for every other order of the same
\* candidate set.
C9_Determinism ==
    Detected => \A g \in Perms(Enumerated) : detect_esp32_acm(g, sysfs) = usb_dev

\* C9 witness: discovery returned a path for candidates the OS listed in an
\* order that is not the sorted one.
C9_Witness ==
    /\ Detected /\ usb_dev # None
    /\ Cardinality(Enumerated) >= 3
    /\ \E i \in 1..(Len(glob) - 1) : LexLess(glob[i + 1], glob[i])

\* the metadata of candidate p could be read: find_usb_parent_sysfs found a
\* node and the attribute files opened
MetadataRead(p) == find_usb_parent_sysfs(sysfs[p]).some /\ sysfs[p].readable

\* the for loop has printed its line about candidate p
Examined(p) ==
    \E i \in DOMAIN out :
        /\ out[i].dev = Some(p)
        /\ out[i].msg \in {"no USB parent sysfs with idVendor/idProduct",
                           "failed to read idVendor/idProduct", "VID PID"}

\* C11 as stated: the path discovery returns is never a candidate whose
\* metadata could not be read.
C11_NeverReturned ==
    (Detected /\ usb_dev # None) => MetadataRead(usb_dev.val)

\* C11 amended: a candidate whose metadata cannot be read does not stop the
\* scan: every candidate is examined and discovery returns a path; such a
\* candidate is never taken for a vendor match, so a readable matching
\* candidate wins over it; it is returned only by the fallback, when no
\* candidate with readable metadata carries the vendor id and it is the first
\* path in sorted order.
C11_NonFatal ==
    (Detected /\ Enumerated # {}) =>
        /\ \A p \in Enumerated : Examined(p)
        /\ \A p \in Enumerated : ~MetadataRead(p) => p \notin Range(esp_ports)
        /\ usb_dev # None
        /\ ~MetadataRead(usb_dev.val) =>
              /\ \A q \in Enumerated :
                     ~(MetadataRead(q) /\ ReadVid(sysfs[q]) = ESPRESSIF_USB_VID)
              /\ usb_dev.val = LexFirst(Enumerated)

\* C11 witness: two candidates whose metadata cannot be read (one without a
\* /sys node, one whose attribute file does not open) sort before a readable
\* ESP32; the scan went on past both and returned the ESP32.
C11_Witness ==
    /\ Detected /\ Len(candidates) = 3
    /\ ~find_usb_parent_sysfs(sysfs[candidates[1]]).some
    /\ find_usb_parent_sysfs(sysfs[candidates[2]]).some /\ ~sysfs[candidates[2]].readable
    /\ \A i \in 1..2 : ReadVid(sysfs[candidates[i]]) = ESPRESSIF_USB_VID
    /\ MetadataRead(candidates[3])
    /\ usb_dev = Some(candidates[3])

-----------------------------------------------------------------------------
(* The bridge process: the claims *)

Printed(t) == \E i \in DOMAIN out : out[i].msg = t

Exited == pc = "exited"

\* the try statement at line 161 was entered
LoopEntered == Printed("Bridge running... (Ctrl+C to stop)")

IsPrefix(a, b) == Len(a) <= Len(b) /\ SubSeq(b, 1, Len(a)) = a

\* C1: when the process has exited, no handle it opened is still open, and no
\* handle was closed more than once.
C1_HandlesReleased ==
    Exited => /\ ser # "open"
              /\ tap # "open"
              /\ serCloses <= 1
              /\ tapCloses <= 1

\* C2: when the handler of the operator interrupt is entered, every byte read
\* from one endpoint has been written to the other: the step in progress was
\* finished first.
C2_StepFinished ==
    pc = "main_except_kbd" =>
        /\ Flatten(tapWrites) = serRead
        /\ Flatten(serWrites) = tapRead

\* C3 as stated, on the runs no interrupt disturbs: every byte read from one
\* endpoint was written to the other by the time the process has exited.
C3_NothingLost ==
    (Exited /\ interrupts = 0) =>
        /\ Flatten(tapWrites) = serRead
        /\ Flatten(serWrites) = tapRead

\* C3 amended: the buffers written to a destination are, in order, the
\* buffers read from the opposite source: between two steps of the loop the
\* bytes written are exactly the bytes read; while a step is between its read
\* and its write they lack exactly the buffer of that step; at every state
\* they are a prefix of the bytes read.
C3_Fidelity ==
    /\ IsPrefix(Flatten(tapWrites), serRead)
    /\ IsPrefix(Flatten(serWrites), tapRead)
    /\ pc \in LoopPcs =>
          /\ serRead = Flatten(tapWrites) \o (IF pc = "loop_tap_write" THEN data ELSE <<>>)
          /\ tapRead = Flatten(serWrites) \o (IF pc = "loop_ser_write" THEN data ELSE <<>>)

\* C3 witness: between two steps, after two separate serial reads and two
\* frames were forwarded.
C3_Witness ==
    /\ pc = "loop_in_waiting"
    /\ Len(tapWrites) = 2 /\ Flatten(tapWrites) = serRead
    /\ Len(serWrites) = 2 /\ Flatten(serWrites) = tapRead
    /\ Len(tapRead) >= 3

\* C4: the loop polls its two endpoints in strict alternation, the serial
\* endpoint first, so a direction is served at most once before the other
\* endpoint is polled again.
C4_NoStarvation ==
    /\ served.serial <= 1
    /\ served.tap <= 1
    /\ pc = "loop_in_waiting" => lastPoll \in {"none", "tap"}
    /\ pc \in {"loop_ser_read", "loop_tap_write", "loop_select"} => lastPoll = "serial"
    /\ pc \in {"loop_tap_read", "loop_ser_write"} => lastPoll = "tap"

\* C4 witness: traffic in both directions: a frame is being forwarded while
\* serial input is pending, after the serial direction was served.
C4_Witness ==
    /\ pc = "loop_ser_write"
    /\ serIn # <<>> /\ tapIn # <<>>
    /\ tapWrites # <<>>
    /\ served.tap = 1

ReadWriteCalls == {"ser.read", "os.write", "os.read", "ser.write"}

\* a read or a write of the forwarding loop has raised
ReadWriteFailed == failed # None /\ failed.val.call \in ReadWriteCalls

\* C5: once a read or a write of the forwarding loop has raised, no endpoint
\* is read or written again, the loop is left, and when the process has exited
\* both endpoints are closed, the failure was reported and the status is not
\* zero.
C5_LoopFatal ==
    ReadWriteFailed =>
        /\ Logs = failed.val.logs
        /\ pc \notin LoopPcs
        /\ Exited => /\ ser = "closed" /\ tap = "closed"
                     /\ Printed("Traceback: I/O error")
                     /\ exitCode \notin {None, Some(0)}

\* C5 without a SIGINT: the same, on the runs in which no interrupt is delivered.
C5_LoopFatalUninterrupted == interrupts = 0 => C5_LoopFatal

SetupFailed ==
    \/ Printed("Failed to auto-detect any suitable /dev/ttyACM* device.")
    \/ Printed("Error opening")
    \/ Printed("Error creating TAP interface")

\* C6: when the process has exited after an operator interrupt that came
\* with both endpoints acquired (and no setup or forwarding failure), the
\* shutdown notice was printed, both endpoints are closed and the status is
\* zero; when it has exited after a setup failure the status is not zero and
\* the loop was never entered.
C6_ExitStatus ==
    Exited =>
        /\ (interrupts > 0 /\ ser # "unopened" /\ tap # "unopened"
                /\ ~SetupFailed /\ failed = None) =>
              /\ Printed("Stopping bridge...")
              /\ ser = "closed" /\ tap = "closed"
              /\ exitCode = Some(0)
        /\ SetupFailed => (exitCode \notin {None, Some(0)} /\ ~LoopEntered)

\* C6, the setup-failure half alone.
C6_SetupFailure ==
    (Exited /\ SetupFailed) => (exitCode \notin {None, Some(0)} /\ ~LoopEntered)

\* C10: discovery over no candidates returns None, and a bridge started
\* without a device path when no candidate exists exits with a non-zero
\* status having opened neither the serial device nor /dev/net/tun.
C10_Empty ==
    /\ (Detected /\ glob = <<>>) => usb_dev = None
    /\ (Exited /\ argsDev \in {None, Some(<<>>)} /\ glob = <<>>) =>
          /\ exitCode \notin {None, Some(0)}
          /\ ser = "unopened" /\ tap = "unopened"
          /\ ~LoopEntered

\* C10 witness: the bridge ran as root without --dev, found no candidate,
\* reported it and exited with status 1.
C10_Witness ==
    /\ Exited /\ isRoot /\ argsDev = None /\ glob = <<>>
    /\ usb_dev = None
    /\ Printed("Auto-detect: no /dev/ttyACM* devices found")
    /\ Printed("Failed to auto-detect any suitable /dev/ttyACM* device.")
    /\ exitCode = Some(EXIT_FAILURE)

\* C12: a bridge started without administrative privilege does nothing but
\* report it and exit with a non-zero status: it never gets past the test at
\* the start of main, so no discovery is attempted, the serial device is not
\* opened and /dev/net/tun is not opened.
C12_PrivilegeFirst ==
    ~isRoot =>
        /\ pc \in {"main_start", "exited"}
        /\ candidates = <<>> /\ scanIdx = 0 /\ usb_dev = None
        /\ \A i \in DOMAIN out : out[i].msg \in {"Error: This script must be run as root",
                                                  "Use: sudo python3 bridge_usb.py --dev /dev/ttyACM1",
                                                  "Traceback: KeyboardInterrupt"}
        /\ ser = "unopened" /\ tap = "unopened"
        /\ Exited => exitCode \notin {None, Some(0)}
        /\ (Exited /\ interrupts = 0) =>
              (exitCode = Some(EXIT_FAILURE) /\ Printed("Error: This script must be run as root"))

\* C12 witness: an unprivileged bridge, started without --dev where an ESP32
\* is attached, has exited with status 1.
C12_Witness ==
    /\ Exited /\ ~isRoot /\ interrupts = 0
    /\ argsDev = None /\ glob # <<>>
    /\ exitCode = Some(EXIT_FAILURE)
    /\ Printed("Error: This script must be run as root")

\* number of lines printed with text t
Count(t) == Cardinality({i \in DOMAIN out : out[i].msg = t})

\* C15: while the process is in the forwarding loop exactly one serial handle
\* and one TAP handle are open (each was opened once and neither was closed),
\* and a step leaves the loop only by an operator interrupt or by a call
\* that raised: never after a timeout, an idle iteration or a normal return.
C15_Forwarding ==
    /\ [](pc \in LoopPcs =>
             /\ ser = "open" /\ tap = "open"
             /\ serCloses = 0 /\ tapCloses = 0
             /\ Count("Connected to") = 1 /\ Count("TAP interface esp0 created") = 1)
    /\ [][(pc \in LoopPcs /\ pc' \notin LoopPcs) =>
             \/ interrupts' = interrupts + 1 /\ pc' = "main_except_kbd"
             \/ failed = None /\ failed' # None /\ exc' = "io" /\ pc' = OnRaise]_vars

\* C15 witness: the loop is still running, both handles open, after traffic
\* in both directions was forwarded and both endpoints have gone idle.
C15_Witness ==
    /\ pc = "loop_in_waiting" /\ lastPoll = "tap"
    /\ ser = "open" /\ tap = "open"
    /\ serIn = <<>> /\ tapIn = <<>>
    /\ sent.serial = MaxSerialBytes /\ sent.tap = MaxFrames
    /\ Len(tapWrites) >= 1 /\ Len(serWrites) >= 1

\* a step of the loop itself: not a SIGINT, not a raising call, not an arrival
LoopStep ==
    /\ pc \in LoopPcs /\ pc' # pc
    /\ interrupts' = interrupts /\ failed' = failed

\* C16: a step of the loop that finds no pending input on the endpoint it
\* polls, or that handles a read which returned zero bytes, writes nothing,
\* leaves both handles open and goes on to the next step of the loop.
C16_EmptyRead ==
    [][(LoopStep /\ \/ pc = "loop_in_waiting" /\ serIn = <<>>
                    \/ pc = "loop_select" /\ tapIn = <<>>
                    \/ pc \in {"loop_tap_write", "loop_ser_write"} /\ data = <<>>) =>
          /\ tapWrites' = tapWrites /\ serWrites' = serWrites
          /\ ser' = "open" /\ tap' = "open"
          /\ pc' = (CASE pc = "loop_in_waiting" -> "loop_select"
                      [] pc = "loop_tap_write"  -> "loop_select"
                      [] pc = "loop_select"     -> "loop_in_waiting"
                      [] pc = "loop_ser_write"  -> "loop_in_waiting")]_vars

\* C16 witness: the loop has come back to its first step after a serial read
\* and a TAP read both returned zero bytes and nothing was written.
C16_Witness ==
    /\ pc = "loop_in_waiting" /\ lastPoll = "tap"
    /\ served.tap = 1 /\ data = <<>>
    /\ sent.serial >= 1 /\ serRead = <<>>
    /\ tapWrites = <<>> /\ serWrites = <<>>
    /\ ser = "open" /\ tap = "open"

\* C13: every buffer the loop has written, to the TAP descriptor or to the
\* serial port, is at most 1500 bytes long.
C13_BufferBound ==
    /\ \A i \in DOMAIN tapWrites : Len(tapWrites[i]) <= MTU
    /\ \A i \in DOMAIN serWrites : Len(serWrites[i]) <= MTU

\* C13, the TAP-to-serial direction alone: os.read(tap_fd, 1500) bounds it.
C13_TapToSerialBound ==
    /\ \A i \in DOMAIN serWrites : Len(serWrites[i]) <= MTU
    /\ pc = "loop_ser_write" => Len(data) <= MTU

\* the walk has returned to its caller
WalkReturned == walkPc \in {"walk_returned", "probe_done"}

\* the levels at which both attribute files exist
IdLevels == walkSys.idVendorAt \cap walkSys.idProductAt

\* k: the hops from the resolved node to the nearest node with both files
NearestIds == CHOOSE k \in IdLevels : \A j \in IdLevels : k <= j

\* C14 as stated: the nearest node with both attribute files, k hops above
\* the resolved node, is returned for every k <= 5, and None for every k > 5.
C14_FiveHops ==
    (WalkReturned /\ walkSys.base /\ IdLevels # {}) =>
        /\ NearestIds <= 5 => walkRet = Some(NearestIds)
        /\ NearestIds > 5 => walkRet = None

\* C14 amended: the walk tests at most 5 nodes, the resolved node and its
\* first 4 ancestors, never one above the filesystem root: the nearest node
\* with both attribute files, k hops up, is returned for every k <= 4 and
\* None for every k >= 5; None is returned as well when there is no such
\* node, the walk then having stopped at the root if the root is fewer than
\* 4 hops up.  The result is the one the scan of detect_esp32_acm uses.
C14_FiveNodes ==
    /\ Cardinality(walkSeen) <= 5
    /\ walkSeen \subseteq 0..4
    /\ walkSys # None => walkSeen \subseteq 0..walkSys.rootLevel
    /\ (WalkReturned /\ walkSys.base) =>
          /\ (IdLevels # {} /\ NearestIds <= 4) =>
                (walkRet = Some(NearestIds) /\ walkSeen = 0..NearestIds)
          /\ (IdLevels # {} /\ NearestIds >= 5) => walkRet = None
          /\ IdLevels = {} =>
                /\ walkRet = None
                /\ walkSys.rootLevel < 4 => walkSeen = 0..walkSys.rootLevel
    /\ (WalkReturned /\ ~walkSys.base) => (walkRet = None /\ walkSeen = {})
    /\ WalkReturned => walkRet = find_usb_parent_sysfs(walkSys)

\* C14 witness: the nearest node with both files is 5 hops up, below the
\* root, a node with idVendor alone lies nearer, and the walk returned None
\* after testing 5 nodes.
C14_Witness ==
    /\ WalkReturned /\ walkSys.base
    /\ IdLevels # {} /\ NearestIds = 5
    /\ walkSys.rootLevel = 6
    /\ 2 \in walkSys.idVendorAt
    /\ walkRet = None
    /\ walkSeen = 0..4

\* raw is 303a in any letter case between leading and trailing whitespace
CaseInsensitiveExact(raw) ==
    \E a \in 0..Len(raw), b \in 0..Len(raw) :
        /\ a + 4 + b = Len(raw)
        /\ \A i \in 1..a : raw[i] \in Whitespace
        /\ \A i \in (Len(raw) - b + 1)..Len(raw) : raw[i] \in Whitespace
        /\ raw[a + 1] = "3" /\ raw[a + 2] = "0" /\ raw[a + 3] = "3"
        /\ raw[a + 4] \in {"a", "A"}

\* C17: a candidate whose metadata was read is counted as vendor-matched if
\* and only if the content of its idVendor file is, between leading and
\* trailing whitespace, the four characters 303a in any letter case; this
\* is the test the scan of detect_esp32_acm applies.
C17_ExactMatch ==
    (walkPc = "probe_done" /\ walkRet # None /\ walkSys.readable) =>
        /\ vidMatch <=> CaseInsensitiveExact(walkSys.idVendor)
        /\ vidMatch <=> VendorMatched(walkSys)

\* C17 witness: an upper-case id between whitespace was matched.
C17_Witness ==
    /\ walkPc = "probe_done"
    /\ walkSys.idVendor = <<"\n", "3", "0", "3", "A", "\n">>
    /\ vidMatch

\* C17 witness of the other half: superstrings, a prefix and a suffix of
\* 303a are examined and none of them is matched.
C17_WitnessNoMatch ==
    /\ walkPc = "probe_done" /\ walkRet # None /\ walkSys.readable
    /\ walkSys.idVendor \in {<<"3", "0", "3", "a", "3">>, <<"0", "3", "0", "3", "a">>,
                             <<"3", "0", "3">>, <<"0", "3", "a">>,
                             <<"3", "0", "3", "\n", "a">>}
    /\ ~vidMatch

-----------------------------------------------------------------------------
(* The setup scripts: the claims *)

SPrinted(t) == \E i \in DOMAIN sOut : sOut[i].msg = t

\* a run of setup_tap.py / of setup_routing.py with the given action
TapRun == sPc # "idle" /\ sArgs.prog = "setup_tap"

RoutingRun(op) == sPc # "idle" /\ sArgs.prog = "setup_routing" /\ sArgs.op = op

\* C12 for setup_tap.py: an unprivileged run prints its banner and the error,
\* and exits with status 1 before discovery and before any command.
C12_SetupTapPrivilege ==
    (TapRun /\ ~sRoot) =>
        /\ sPc \in {"tap_main", "tap_check_root", "exited"}
        /\ sDev = None
        /\ sPc = "exited" => sExit = Some(EXIT_FAILURE)

\* C18: whenever a run of setup_tap.py prints its "Setup complete!" report,
\* esp0 exists, has the address 192.168.7.1/24 and is up, whatever runs came
\* before.
C18_SetupComplete ==
    [][(sPc = "tap_complete" /\ sPc' = "exited") => (ifExists /\ ifAddr /\ ifUp)]_vars

\* C18 on a host on which no earlier run was aborted: there the report is right.
C18_FirstRun ==
    [][(sPc = "tap_complete" /\ sPc' = "exited" /\ runs = 1) =>
          (ifExists /\ ifAddr /\ ifUp)]_vars

\* C19: setup_default_route removes a default route only after backup_routes
\* has written a backup file that holds it, and when it is over the host has
\* a default route if it had one before.
C19_BackupBeforeDelete ==
    /\ [][(sPc = "def_del" /\ defRoutes' # defRoutes) =>
             /\ backupOk = Some(TRUE)
             /\ backupFile # None /\ backupFile.val.valid
             /\ backupFile.val.default_route = Some(defRoutes)]_vars
    /\ []((RoutingRun("default") /\ sRoot /\ sPc \in {"rt_tail", "exited"}
              /\ sBefore.defRoutes # {}) => defRoutes # {})

\* C19, what does hold: backup_routes has been called, and has returned,
\* before a default route is removed; and when setup_default_route returns
\* True the default route via esp0 is in place.
C19_BackupAttempted ==
    /\ [][(sPc = "def_del" /\ defRoutes' # defRoutes) => backupOk # None]_vars
    /\ []((RoutingRun("default") /\ sPc = "rt_tail" /\ sRet = Some(TRUE)) =>
              "esp0" \in defRoutes)

\* C20: a run of setup_default_route or of setup_specific_route started on a
\* host without esp0 adds no route, deletes none, writes no backup, and returns
\* False right after its interface test.
C20_NoInterface ==
    ((RoutingRun("default") \/ RoutingRun("route")) /\ ~sBefore.ifExists) =>
        /\ ~ifExists
        /\ defRoutes = sBefore.defRoutes
        /\ routes = sBefore.routes
        /\ backupFile = sBefore.backupFile
        /\ backupOk = None
        /\ sPc \in {"rt_main", "def_if_exists", "spec_if_exists", "rt_tail", "exited"}
        /\ (sRoot /\ sPc \in {"rt_tail", "exited"}) => sRet = Some(FALSE)

\* C20 witness: esp0 was removed after an earlier --default run had written
\* a backup and replaced the default route; a later --default run has
\* returned False.
C20_Witness ==
    /\ RoutingRun("default") /\ sRoot /\ sPc = "exited"
    /\ ~ifExists
    /\ sRet = Some(FALSE)
    /\ backupFile # None /\ backupFile = sBefore.backupFile
    /\ SPrinted("Error: Interface esp0 does not exist")

\* C20 witness for setup_specific_route, on a host with a default route.
C20_WitnessRoute ==
    /\ RoutingRun("route") /\ sRoot /\ sPc = "exited"
    /\ ~ifExists
    /\ sRet = Some(FALSE)
    /\ defRoutes = {"orig"} /\ routes = {}

\* C16 witness for the serial side: a serial read has returned zero bytes,
\* nothing was written, and the loop has moved on to poll the TAP descriptor.
C16_WitnessSerial ==
    /\ pc = "loop_select" /\ lastPoll = "serial"
    /\ served.serial = 1 /\ data = <<>>
    /\ serIn # <<>>
    /\ tapWrites = <<>>
    /\ ser = "open" /\ tap = "open"

====
